---- MODULE Spec2Model ----
(***************************************************************************)
(* State-machine model of the nora-link tunnel client: class Client        *)
(* (server$, data$, connectToServer$, idle$, handle$, send, getStreamData,  *)
(* httpRequest) and goIdleAndWaitForSignal.                                 *)
(*                                                                         *)
(* Every action is one callback of the program together with everything    *)
(* that callback runs synchronously through the RxJS operator chain        *)
(* (subscriptions, teardowns, nested next/error/complete calls).  The      *)
(* asynchronous events of the environment (websocket events, timers, local *)
(* http/socket events, completion callbacks of writes, database snapshots) *)
(* are the nondeterminism of the model.                                    *)
(***************************************************************************)
EXTENDS Integers, Sequences, FiniteSets, TLC

(***************************************************************************)
(* Bounds of the exploration.                                              *)
(***************************************************************************)
\* payload events of one session, all requests together: chunks read from
\* the local calls plus data frames received from the relay
MaxData == 2
\* largest value of retryCount explored by Spec
MaxRetry == 2
\* largest value of retryCount explored by SpecBackoff
MaxBackoffRetry == 13
\* largest integer stored under a name in the idle database
MaxDbVal == 1
\* clock ticks the 3600 s of the idle timeout are divided into
MaxIdleTicks == 2
\* messages handed to the channel by SpecWire
MaxChannel == 2
\* http / ws frames received for an id whose PerRequest is live, per id
MaxTwins == 1

(***************************************************************************)
(* Program constants.                                                      *)
(***************************************************************************)
\* Math.min(600, ...) in the retry delay
DelayCap == 600

\* options.tunnels.map(t => t.subdomain): the configured subdomains, in order
Subdomains == <<"app", "test">>

\* names that may occur as keys of the idle database value
DbNames == {"app", "test", "other"}

\* subdomain values a request descriptor may carry
DescriptorSubdomains == {"app", "missing"}

\* the request ids in play during one session, in the order the relay mints
\* them (requestId is opaque; two ids run concurrently)
Ids == {1, 2}

VARIABLES
    status,        \* the last value emitted by handle$
    repeated,      \* TRUE once handle$ has emitted the value it had emitted
                   \* just before (history variable)
    retryCount,    \* Client.retryCount
    ws,            \* the WebSocket owned by server$: "none", "connecting", "open"
    settleTimer,   \* TRUE while the delay(500) timer of an open event is pending
    retryTimer,    \* TRUE while the timer returned by retry's delay is pending
    delaySeconds,  \* delaySeconds of the pending retry (0 when none is pending)
    retryErr,      \* the err handed to retry's delay for the pending retry
    failRun,       \* retries scheduled since the last settle (history variable)
    cancelled,     \* PerRequests unsubscribed by the last teardown of a
                   \* session, until the next open (history variable)
    idle,          \* value held by idle$: "null" or "descriptor"
    app,           \* TRUE while the firebase app of the idle notifier exists
    notifier,      \* goIdleAndWaitForSignal: "off", "signin", "watch"
    lastProj,      \* distinctUntilChanged's previous tuple (<<>> before the first)
    lastSnapshot,  \* the value of the last snapshot of this idle period
                   \* (history variable)
    idleClock,     \* ticks elapsed since goIdleAndWaitForSignal was subscribed
    timeoutLeft,   \* ticks left on the timer of timeout(3600 * 1000)
    woke,          \* the goOutOfIdle calls of the last idle period, until the
                   \* next open (history variable)
    reqs,          \* the PerRequests of the session, by request id
    channel,       \* the buffers handed to ws.send, in order
    sentFrames,    \* the (id, type, msg) of the send calls, in order (history)
    received,      \* the last buffer given to ws.on('message')
    decoded,       \* what data$'s map made of it
    delivered,     \* the frames that passed data$'s filter, in order
    localCall      \* httpRequest's tunnel, request descriptor and the options
                   \* it gives to request(...)

vars == <<status, repeated, retryCount, ws, settleTimer, retryTimer,
          delaySeconds, retryErr, failRun, cancelled, idle, app, notifier,
          lastProj, lastSnapshot, idleClock, timeoutLeft, woke, reqs,
          channel, sentFrames,
          received, decoded, delivered, localCall>>

supervisorVars == <<status, repeated, retryCount, ws, settleTimer, retryTimer,
                    delaySeconds, retryErr, failRun, cancelled>>

notifierVars == <<idle, app, notifier, lastProj, lastSnapshot, idleClock,
                  timeoutLeft>>

idleVars == <<notifierVars, woke>>

wireVars == <<channel, sentFrames, received, decoded, delivered>>

(***************************************************************************)
(* Frames written by send(type, msg).  msg names the payload; n is the     *)
(* position of a chunk in the output of the local call (0 otherwise).      *)
(***************************************************************************)
Frame(type, msg, n) == [type |-> type, msg |-> msg, n |-> n]

\* send(MessageTypes.HEAD, JSON.stringify({statusCode, headers}))
HeadFrame == Frame("head", "response-head", 0)

\* send(MessageTypes.DATA, Buffer.from(head)) of the upgrade branch
UpgradeFrame == Frame("data", "upgrade-head", 0)

\* send(MessageTypes.DATA, data) for the k-th chunk read from the local call
ChunkFrame(k) == Frame("data", "chunk", k)

\* send(MessageTypes.END)
EndFrame == Frame("end", "", 0)

\* send(MessageTypes.BADGATEWAY)
BadGatewayFrame == Frame("badgateway", "", 0)

\* an inbound frame as getStreamData hands it to rx$: {type, msg}
Inbound(type, n) == [type |-> type, n |-> n]

(***************************************************************************)
(* The retry delay.                                                        *)
(* Math.round(Math.min(600, Math.pow(1.8, retryCount - 1))), computed      *)
(* exactly: 1.8^k = 9^k / 5^k is kept as quotient and remainder of 9^k by  *)
(* 5^k, and the recursion stops once the quotient has reached the cap      *)
(* (the minimum is then 600 whatever the further factors are).             *)
(***************************************************************************)
RECURSIVE Pow5(_)
Pow5(k) == IF k = 0 THEN 1 ELSE 5 * Pow5(k - 1)

RECURSIVE Pow18(_)
Pow18(k) ==
    IF k = 0 THEN [q |-> 1, r |-> 0]
    ELSE LET p == Pow18(k - 1)
         IN  IF p.q >= DelayCap THEN p
             ELSE LET t == ((9 * p.q) % 5) * Pow5(k - 1) + 9 * p.r
                  IN  [q |-> (9 * p.q) \div 5 + t \div Pow5(k),
                       r |-> t % Pow5(k)]

\* variant of RoundPow: Math.floor instead of Math.round
FloorPow(p, k) == p.q

\* Math.round of q + r / 5^k: halves round up
RoundPow(p, k) == p.q + (IF 2 * p.r >= Pow5(k) THEN 1 ELSE 0)

DelaySeconds(n) ==
    LET p == Pow18(n - 1)
    IN  IF p.q >= DelayCap THEN DelayCap ELSE RoundPow(p, n - 1)

(***************************************************************************)
(* PerRequest: one subscription of httpRequest(...) inside mergeMap.       *)
(***************************************************************************)
NoReq ==
    [kind        |-> "none",   \* type: "http" or "ws"
     stage       |-> "none",   \* "waiting", "streaming", "failing", "done"
     headersSent |-> FALSE,    \* the request head has left for the local target
     sent        |-> <<>>,     \* frames handed to ws.send, in call order
     txq         |-> <<>>,     \* sends buffered by concatMap(o => o)
     txActive    |-> FALSE,    \* a ws.send callback is awaited
     chunks      |-> 0,        \* 'data' events of the local call so far
     localEnded  |-> FALSE,    \* 'end' event of the local call seen
     rxSub       |-> FALSE,    \* rx$ is subscribed to getStreamData(id)
     rxq         |-> <<>>,     \* inbound frames buffered by rx$'s concatMap
     rxActive    |-> "none",   \* callback awaited by rx$: "write", "end";
                               \* "never" when the inner Observable calls
                               \* nothing
     rxDone      |-> FALSE,    \* rx$ has completed
     localIn     |-> <<>>,     \* payloads written to the local call, in order
     localClosed |-> FALSE,    \* req.end() / socket.end() has been called
     recv        |-> 0,        \* data frames received for the id (history)
     relayEnd    |-> FALSE,    \* an end frame was received for the id (history)
     twins       |-> 0,        \* further httpRequest subscriptions made for
                               \* the id while this one is live
     how         |-> "none"]   \* what ended it: "localEnd", "remoteEnd",
                               \* "complete", "error"

Live(r) == r.stage \in {"waiting", "streaming"}

\* this.options.tunnels.find(v => v.subdomain === subdomain)
TunnelFound(subdomain) == \E i \in DOMAIN Subdomains : Subdomains[i] = subdomain

\* variant of Emit: mergeMap instead of concatMap, every send is subscribed
\* when it is emitted
EmitAtOnce(r, f) == [r EXCEPT !.sent = Append(@, f), !.txActive = TRUE]

\* observer.next(send(...)) into concatMap(o => o): the send is subscribed
\* (ws.send is called) at once when no earlier send is awaited, else buffered
Emit(r, f) ==
    IF r.txActive
    THEN [r EXCEPT !.txq = Append(@, f)]
    ELSE [r EXCEPT !.sent = Append(@, f), !.txActive = TRUE]

\* the inner Observable of rx$: socket.write / req.write for data,
\* socket.end / req.end for end; for any other type the switch does nothing
\* and the inner Observable never completes
StartRx(r, f) ==
    IF f.type = "data"
    THEN [r EXCEPT !.localIn = Append(@, f.n), !.headersSent = TRUE,
                   !.rxActive = "write"]
    ELSE IF f.type = "end"
    THEN [r EXCEPT !.localClosed = TRUE, !.headersSent = TRUE,
                   !.rxActive = "end"]
    ELSE [r EXCEPT !.rxActive = "never"]

\* a frame of getStreamData(id) arriving at rx$'s concatMap
Deliver(r, f) ==
    IF r.rxSub /\ ~r.rxDone
    THEN IF r.rxActive = "none" THEN StartRx(r, f)
         ELSE [r EXCEPT !.rxq = Append(@, f)]
    ELSE r

\* what is kept of a PerRequest once it is over: the frames it sent and the
\* counts of what its local call and the relay produced
Over(r, how) ==
    [NoReq EXCEPT !.kind = r.kind, !.stage = "done", !.how = how,
                  !.sent = r.sent, !.chunks = r.chunks, !.recv = r.recv,
                  !.twins = r.twins,
                  !.localClosed = IF r.kind = "ws" /\ r.stage = "streaming"
                                  THEN TRUE ELSE r.localClosed]

\* reqObserver.complete(): every inner subscription is torn down (buffered
\* sends and buffered inbound frames are dropped; the teardown of an upgraded
\* request's tx$ calls socket.end())
Finish(r, how) == Over(r, how)

\* merge(handleResponse$, rx$) of an http request completes when both have
HttpComplete(r) ==
    /\ r.kind = "http"
    /\ r.stage = "streaming"
    /\ r.localEnded /\ ~r.txActive /\ r.txq = <<>>
    /\ r.rxDone

\* variant of BadGateway: the badgateway frame is sent but the source is
\* not unsubscribed, so the local call keeps feeding frames
BadGatewayKeepsSource(r) ==
    [r EXCEPT !.how = "error", !.txActive = TRUE,
              !.sent = Append(@, BadGatewayFrame)]

\* catchError(err => send(MessageTypes.BADGATEWAY)): the source is
\* unsubscribed and the badgateway frame is handed to ws.send
BadGateway(r) ==
    [Over(r, "error") EXCEPT !.stage = "failing", !.txActive = TRUE,
                             !.sent = Append(@, BadGatewayFrame)]

\* payload events of the session so far: 'data' events of the local calls
\* and data frames received, over all requests
RECURSIVE PayloadEvents(_)
PayloadEvents(S) ==
    IF S = {} THEN 0
    ELSE LET i == CHOOSE j \in S : TRUE
         IN  reqs[i].chunks + reqs[i].recv + PayloadEvents(S \ {i})

\* variant of TornDown: the inner subscriptions outlive the session
KeepRequests == reqs

\* unsubscribing connectToServer$ unsubscribes every inner of mergeMap
TornDown == [i \in Ids |-> NoReq]

\* the PerRequests a teardown unsubscribes: those not yet finalized
InFlight == {i \in Ids : reqs[i].stage \in {"waiting", "streaming", "failing"}}

(***************************************************************************)
(* The local call: what httpRequest hands to request(...) of node:http.    *)
(* A tunnel's url is held as the parts new URL(tunnel.url) gives; a header  *)
(* map is a function from the names it has (case kept) to their values.     *)
(***************************************************************************)
\* header names a descriptor may carry
HeaderNames == {"host", "Host", "HOST", "accept"}

\* the header maps explored: every set of names, each name with its value
HeaderMaps ==
    {[n \in S |-> IF n = "accept" THEN "*/*" ELSE "app.noralink.eu"] :
        S \in SUBSET HeaderNames}

\* the tunnels explored: removeHostHeader unset, true or false; url with and
\* without scheme https, port and path
Tunnels ==
    [removeHostHeader : {"unset", "true", "false"},
     protocol : {"http:", "https:"},
     hostname : {"internal.local"},
     port : {"", "3000"},
     pathname : {"/", "/base"}]

\* the request descriptors explored
Descriptors ==
    [url : {"/", "/a?b=1"}, method : {"GET", "post"}, headers : HeaderMaps]

\* no request(...) yet
NoOptions ==
    [made |-> FALSE, module |-> "", host |-> "", port |-> "", path |-> "",
     method |-> "", headers |-> [n \in {} |-> ""]]

NoCall ==
    [tunnel |-> [removeHostHeader |-> "unset", protocol |-> "http:",
                 hostname |-> "internal.local", port |-> "",
                 pathname |-> "/"],
     descriptor |-> [url |-> "/", method |-> "GET",
                     headers |-> [n \in {} |-> ""]],
     options |-> NoOptions]

\* if (tunnel.removeHostHeader ?? true) { delete headers["host"]; }
RemoveHost(tunnel, headers) ==
    IF tunnel.removeHostHeader \in {"unset", "true"}
    THEN [n \in DOMAIN headers \ {"host"} |-> headers[n]]
    ELSE headers

\* request({host: hostname, port: port, path: ..., method, headers}) with
\* request imported from node:http
RequestOptions(tunnel, descriptor) ==
    [made |-> TRUE,
     module |-> "node:http",
     host |-> tunnel.hostname,
     port |-> tunnel.port,
     path |-> IF tunnel.pathname = "/" THEN descriptor.url
              ELSE tunnel.pathname \o descriptor.url,
     method |-> descriptor.method,
     headers |-> RemoveHost(tunnel, descriptor.headers)]

(***************************************************************************)
(* Frame codec: the buffer assembled by send and the parser in data$'s     *)
(* map.  A buffer is a sequence of bytes, a string is the sequence of its   *)
(* code points (below 2048), a payload is a sequence of bytes.              *)
(***************************************************************************)
\* data$'s map returns null
Nothing == [ok |-> FALSE, id |-> <<>>, type |-> <<>>, msg |-> <<>>]

\* data$'s map returns { id, type, msg }
Decoded(id, type, msg) == [ok |-> TRUE, id |-> id, type |-> type, msg |-> msg]

Min(a, b) == IF a < b THEN a ELSE b

\* Buffer.from(string): UTF-8, one byte below 128 and two bytes below 2048;
\* every character is encoded by itself, so the string is encoded by halves
RECURSIVE Utf8Encode(_)
Utf8Encode(cs) ==
    IF cs = <<>> THEN <<>>
    ELSE IF Len(cs) = 1
    THEN (IF cs[1] < 128 THEN <<cs[1]>>
          ELSE <<192 + (cs[1] \div 64), 128 + (cs[1] % 64)>>)
    ELSE LET half == Len(cs) \div 2
         IN  Utf8Encode(SubSeq(cs, 1, half))
                \o Utf8Encode(SubSeq(cs, half + 1, Len(cs)))

\* buffer.toString(): UTF-8.  A lead byte 194..223 followed by a
\* continuation byte 128..191 is one character; any other byte above 127
\* starts no well-formed sequence and becomes U+FFFD (bytes 224..244, the
\* three and four byte leads, do not occur in the buffers explored)
Utf8Decode(bs) ==
    LET Continues(i) ==
            i > 1 /\ bs[i] \in 128..191 /\ bs[i - 1] \in 194..223
        starts == SelectSeq([i \in 1..Len(bs) |-> i],
                            LAMBDA i : ~Continues(i))
        CodePoint(i) ==
            IF bs[i] < 128 THEN bs[i]
            ELSE IF bs[i] \in 194..223 /\ i < Len(bs) /\ bs[i + 1] \in 128..191
                 THEN (bs[i] - 192) * 64 + (bs[i + 1] - 128)
                 ELSE 65533
    IN  [k \in 1..Len(starts) |-> CodePoint(starts[k])]

\* writeUint8(typeBuffer.length) throws a RangeError above 255
CanEncode(f) == Len(Utf8Encode(f.type)) <= 255

\* the buffer `all` of send: alloc(18 + type + msg) zero bytes, then version,
\* the first 16 bytes of id, the type length, the type, the payload
Encode(f) ==
    LET tb == Utf8Encode(f.type)
        written == <<1>> \o SubSeq(f.id, 1, Min(16, Len(f.id)))
                        \o <<Len(tb)>> \o tb \o f.msg
        size == 18 + Len(tb) + Len(f.msg)
    IN  written \o [i \in 1..(size - Len(written)) |-> 0]

\* variant of Decode: the version byte is not checked
DecodeAnyVersion(v) ==
    IF Len(v) < 18 THEN Nothing
    ELSE LET typeLength == v[18]
         IN  Decoded(SubSeq(v, 2, 17),
                     Utf8Decode(SubSeq(v, 19, Min(18 + typeLength, Len(v)))),
                     SubSeq(v, Min(19 + typeLength, Len(v) + 1), Len(v)))

\* variant of Decode: the layout of the earlier protocol, a 4-byte id and no
\* version byte
DecodeOldLayout(v) ==
    IF Len(v) < 5 THEN Nothing
    ELSE LET typeLength == v[5]
         IN  Decoded(SubSeq(v, 1, 4),
                     Utf8Decode(SubSeq(v, 6, Min(5 + typeLength, Len(v)))),
                     SubSeq(v, Min(6 + typeLength, Len(v) + 1), Len(v)))

\* data$'s map: null below 18 bytes or for a version other than 1;
\* subarray clamps its bounds to the buffer
Decode(v) ==
    IF Len(v) < 18 THEN Nothing
    ELSE IF v[1] # 1 THEN Nothing
    ELSE LET typeLength == v[18]
         IN  Decoded(SubSeq(v, 2, 17),
                     Utf8Decode(SubSeq(v, 19, Min(18 + typeLength, Len(v)))),
                     SubSeq(v, Min(19 + typeLength, Len(v) + 1), Len(v)))

\* request ids on the wire: 16 bytes
WireIds == {[i \in 1..16 |-> 0], [i \in 1..16 |-> 239 + i]}

\* frame types on the wire: "", "ws", and a string with a two-byte character
WireTypes == {<<>>, <<119, 115>>, <<233>>}

\* payloads
WirePayloads == {<<>>, <<1, 255>>}

\* the valid frames sent and received by SpecWire
ValidFrames == [id : WireIds, type : WireTypes, msg : WirePayloads]

\* the type with the largest length the layout can carry: 255 times "a"
LongType == [i \in 1..255 |-> 97]

\* the valid frames encoded and decoded by SpecCodec
CodecFrames ==
    [id : WireIds \cup {[i \in 1..16 |-> 1]},
     type : WireTypes \cup {LongType},
     msg : WirePayloads \cup {<<0>>}]

\* a well-formed message of 22 bytes, cut and altered below
SampleMessage ==
    Encode([id |-> [i \in 1..16 |-> 239 + i], type |-> <<119, 115>>,
            msg |-> <<1, 255>>])

\* the buffers the relay may deliver: the encodings of the valid frames,
\* messages that are too short, messages of another version, and messages
\* whose type length points beyond their end
InboundMessages ==
    {Encode(f) : f \in ValidFrames}
      \cup {SubSeq(SampleMessage, 1, n) : n \in {0, 1, 17, 18}}
      \cup {[SampleMessage EXCEPT ![1] = version] : version \in {0, 2, 255}}
      \cup {SubSeq([SampleMessage EXCEPT ![1] = 2], 1, 17),
            [SampleMessage EXCEPT ![18] = 200]}

\* no snapshot delivered yet
NoSnapshot == [name \in DbNames |-> -1]

\* no goOutOfIdle call yet
NoWake == [by |-> "none", logged |-> FALSE, count |-> 0]

\* handle$ emits s to its subscriber
EmitStatus(s) ==
    /\ status' = s
    /\ repeated' = (repeated \/ status = s)

(***************************************************************************)
(* Initial state: handle$ has been subscribed; idle$ holds null, so        *)
(* connectToServer$ has emitted 'connecting' and server$ has created the   *)
(* WebSocket.                                                              *)
(***************************************************************************)
InitSession ==
    /\ status = "connecting"
    /\ repeated = FALSE
    /\ retryCount = 1
    /\ ws = "connecting"
    /\ settleTimer = FALSE
    /\ retryTimer = FALSE
    /\ delaySeconds = 0
    /\ retryErr = "none"
    /\ failRun = 0
    /\ cancelled = 0
    /\ idle = "null"
    /\ app = FALSE
    /\ notifier = "off"
    /\ lastProj = <<>>
    /\ lastSnapshot = NoSnapshot
    /\ idleClock = 0
    /\ timeoutLeft = 0
    /\ woke = NoWake
    /\ reqs = [i \in Ids |-> NoReq]

InitWire ==
    /\ channel = <<>>
    /\ sentFrames = <<>>
    /\ received = <<>>
    /\ decoded = Nothing
    /\ delivered = <<>>

Init ==
    /\ InitSession
    /\ InitWire
    /\ localCall = NoCall

(***************************************************************************)
(* Supervisor: connectToServer$.                                           *)
(***************************************************************************)
\* ws.on('open'): server$ emits ws; delay(500) starts its timer; data$'s
\* switchMap subscribes the message handler
Open ==
    /\ ws = "connecting"
    /\ ws' = "open"
    /\ settleTimer' = TRUE
    /\ cancelled' = 0
    /\ woke' = NoWake
    /\ UNCHANGED <<status, repeated, retryCount, retryTimer, delaySeconds,
                   retryErr, failRun, notifierVars, reqs, wireVars, localCall>>

\* the delay(500) timer fires: tap resets retryCount, map emits 'connected'
Settle ==
    /\ settleTimer
    /\ settleTimer' = FALSE
    /\ retryCount' = 1
    /\ failRun' = 0
    /\ EmitStatus("connected")
    /\ UNCHANGED <<ws, retryTimer, delaySeconds, retryErr, cancelled,
                   idleVars, reqs, wireVars, localCall>>

\* variant of Fail: the pending delay(500) emission survives the error
FailKeepsSettleTimer(err, cap) ==
    /\ retryCount < cap
    /\ EmitStatus("disconnected")
    /\ delaySeconds' = DelaySeconds(retryCount)
    /\ retryCount' = retryCount + 1
    /\ failRun' = failRun + 1
    /\ retryErr' = err
    /\ retryTimer' = TRUE
    /\ ws' = "none"
    /\ reqs' = TornDown
    /\ cancelled' = Cardinality(InFlight)
    /\ UNCHANGED <<settleTimer, idleVars, wireVars, localCall>>

\* an error reaches catchError of connectToServer$: the source (both merge
\* branches, the pending delay, every PerRequest, data$, server$) is
\* unsubscribed, 'disconnected' is emitted, and retry's delay computes the
\* wait, increments retryCount and starts the timer
Fail(err, cap) ==
    /\ retryCount < cap
    /\ EmitStatus("disconnected")
    /\ delaySeconds' = DelaySeconds(retryCount)
    /\ retryCount' = retryCount + 1
    /\ failRun' = failRun + 1
    /\ retryErr' = err
    /\ retryTimer' = TRUE
    /\ settleTimer' = FALSE
    /\ ws' = "none"
    /\ reqs' = TornDown
    /\ cancelled' = Cardinality(InFlight)
    /\ UNCHANGED <<idleVars, wireVars, localCall>>

\* ws.on('error'), before or after open: observer.error of server$.  The
\* 'close' event the WebSocket emits behind the error finds server$'s
\* subscriber stopped, and observer.complete() does nothing
ChannelError ==
    /\ ws \in {"connecting", "open"}
    /\ Fail("channel", MaxRetry)

\* variant of ChannelClose: data$ has no close handler, the close event only
\* completes server$
ChannelCloseCompletes ==
    /\ ws = "open"
    /\ ws' = "none"
    /\ settleTimer' = FALSE
    /\ UNCHANGED <<status, repeated, retryCount, retryTimer, delaySeconds,
                   retryErr, failRun, cancelled, idleVars, reqs, wireVars, localCall>>

\* the 'close' event of an open WebSocket: ws.on('close') completes server$,
\* then ws.once('close') of data$ raises Error(`${code} - ${reason}`)
ChannelClose ==
    /\ ws = "open"
    /\ Fail("close", MaxRetry)

\* variant of RetryTimerFires: retry gives up after two resubscriptions
RetryTimerGivesUp ==
    /\ retryTimer
    /\ retryCount <= 3
    /\ retryTimer' = FALSE
    /\ delaySeconds' = 0
    /\ retryErr' = "none"
    /\ EmitStatus("connecting")
    /\ ws' = "connecting"
    /\ UNCHANGED <<retryCount, settleTimer, failRun, cancelled, idleVars,
                   reqs, wireVars, localCall>>

\* variant of RetryTimerFires: the resubscription emits no 'connecting'
RetryTimerFiresSilently ==
    /\ retryTimer
    /\ retryTimer' = FALSE
    /\ delaySeconds' = 0
    /\ retryErr' = "none"
    /\ ws' = "connecting"
    /\ UNCHANGED <<status, repeated, retryCount, settleTimer, failRun,
                   cancelled, idleVars, reqs, wireVars, localCall>>

\* the retry timer fires: retry resubscribes, startWith emits 'connecting',
\* server$ creates a new WebSocket
RetryTimerFires ==
    /\ retryTimer
    /\ retryTimer' = FALSE
    /\ delaySeconds' = 0
    /\ retryErr' = "none"
    /\ EmitStatus("connecting")
    /\ ws' = "connecting"
    /\ UNCHANGED <<retryCount, settleTimer, failRun, cancelled, idleVars,
                   reqs, wireVars, localCall>>

(***************************************************************************)
(* Inbound frames: ws.on('message') -> data$ -> mergeMap of                *)
(* connectToServer$ and the getStreamData(id) subscribers.                 *)
(* The relay mints each request id once per session, in increasing order,  *)
(* and sends data / end frames only for requests it has issued.            *)
(***************************************************************************)
\* the subscribe function of httpRequest's Observable, up to its return
httpRequest(kind, subdomain) ==
    IF ~TunnelFound(subdomain)
    THEN BadGateway([NoReq EXCEPT !.kind = kind])
    ELSE IF kind = "ws"
         THEN [NoReq EXCEPT !.kind = kind, !.stage = "waiting",
                            !.headersSent = TRUE]
         ELSE [NoReq EXCEPT !.kind = kind, !.stage = "waiting",
                            !.rxSub = TRUE]

\* an 'http' or 'ws' frame: JSON.parse runs in mergeMap's project function,
\* so a SyntaxError is an error of connectToServer$'s source
ReceiveRequest(id, kind, json, subdomain) ==
    /\ ws = "open"
    /\ reqs[id].stage = "none"
    /\ \A j \in Ids : j < id => reqs[j].stage # "none"
    /\ IF json = "malformed"
       THEN Fail("SyntaxError", MaxRetry)
       ELSE /\ reqs' = [reqs EXCEPT ![id] = httpRequest(kind, subdomain)]
            /\ UNCHANGED <<supervisorVars, idleVars, wireVars, localCall>>

\* a 'data' frame for the id of a PerRequest
ReceiveData(id) ==
    /\ ws = "open"
    /\ Live(reqs[id])
    /\ ~reqs[id].relayEnd
    /\ PayloadEvents(Ids) < MaxData
    /\ LET r == [reqs[id] EXCEPT !.recv = @ + 1]
       IN  reqs' = [reqs EXCEPT ![id] = Deliver(r, Inbound("data", r.recv))]
    /\ UNCHANGED <<supervisorVars, idleVars, wireVars, localCall>>

\* an 'end' frame for the id of a PerRequest
ReceiveEnd(id) ==
    /\ ws = "open"
    /\ Live(reqs[id])
    /\ ~reqs[id].relayEnd
    /\ LET r == [reqs[id] EXCEPT !.relayEnd = TRUE]
       IN  reqs' = [reqs EXCEPT ![id] = Deliver(r, Inbound("end", 0))]
    /\ UNCHANGED <<supervisorVars, idleVars, wireVars, localCall>>

\* an 'http' or 'ws' frame for the id of a live PerRequest: mergeMap
\* subscribes httpRequest once more (a second local call for the id), and
\* the frame reaches the rx$ of the PerRequest that is there
ReceiveKnownRequest(id, kind) ==
    /\ ws = "open"
    /\ Live(reqs[id])
    /\ reqs[id].twins < MaxTwins
    /\ LET r == [reqs[id] EXCEPT !.twins = @ + 1]
       IN  reqs' = [reqs EXCEPT ![id] = Deliver(r, Inbound(kind, 0))]
    /\ UNCHANGED <<supervisorVars, idleVars, wireVars, localCall>>

\* variant of GoIdle: the session is not unsubscribed when the notifier is
\* subscribed
GoIdleKeepsSession ==
    /\ idle' = "descriptor"
    /\ EmitStatus("idle")
    /\ app' = TRUE
    /\ notifier' = "signin"
    /\ lastProj' = <<>>
    /\ lastSnapshot' = NoSnapshot
    /\ idleClock' = 0
    /\ timeoutLeft' = MaxIdleTicks
    /\ woke' = NoWake
    /\ UNCHANGED <<ws, settleTimer, reqs, cancelled, retryCount, retryTimer,
                   delaySeconds, retryErr, failRun, wireVars, localCall>>

\* idle$.next(descriptor): handle$'s switchMap unsubscribes connectToServer$
\* (the whole session) and subscribes goIdleAndWaitForSignal, whose
\* startWith emits 'idle' before the firebase app is created
GoIdle ==
    /\ idle' = "descriptor"
    /\ ws' = "none"
    /\ settleTimer' = FALSE
    /\ reqs' = TornDown
    /\ cancelled' = Cardinality(InFlight)
    /\ EmitStatus("idle")
    /\ app' = TRUE
    /\ notifier' = "signin"
    /\ lastProj' = <<>>
    /\ lastSnapshot' = NoSnapshot
    /\ idleClock' = 0
    /\ timeoutLeft' = MaxIdleTicks
    /\ woke' = NoWake
    /\ UNCHANGED <<retryCount, retryTimer, delaySeconds, retryErr, failRun,
                   wireVars, localCall>>

\* a 'go-idle' frame: JSON.parse, then idle$.next
ReceiveGoIdle(json) ==
    /\ ws = "open"
    /\ IF json = "malformed"
       THEN Fail("SyntaxError", MaxRetry)
       ELSE GoIdle

(***************************************************************************)
(* Events of the local call of a PerRequest.                               *)
(***************************************************************************)
\* req.once('response') of an http request: the head frame is sent
LocalResponse(id) ==
    /\ reqs[id].kind = "http"
    /\ reqs[id].stage = "waiting"
    /\ reqs[id].headersSent
    /\ reqs' = [reqs EXCEPT ![id] =
                   Emit([reqs[id] EXCEPT !.stage = "streaming"], HeadFrame)]
    /\ UNCHANGED <<supervisorVars, idleVars, wireVars, localCall>>

\* variant of LocalUpgrade: the socket is piped without the synthesized
\* status line and header block being sent first
LocalUpgradeNoHead(id) ==
    /\ reqs[id].kind = "ws"
    /\ reqs[id].stage = "waiting"
    /\ reqs' = [reqs EXCEPT ![id].stage = "streaming", ![id].rxSub = TRUE]
    /\ UNCHANGED <<supervisorVars, idleVars, wireVars, localCall>>

\* req.once('upgrade') of a ws request: tx$ sends the synthesized head and
\* rx$ subscribes to getStreamData(id)
LocalUpgrade(id) ==
    /\ reqs[id].kind = "ws"
    /\ reqs[id].stage = "waiting"
    /\ reqs' = [reqs EXCEPT ![id] =
                   Emit([reqs[id] EXCEPT !.stage = "streaming",
                                         !.rxSub = TRUE], UpgradeFrame)]
    /\ UNCHANGED <<supervisorVars, idleVars, wireVars, localCall>>

\* res.on('data') / socket.on('data')
LocalData(id) ==
    /\ reqs[id].stage = "streaming"
    /\ ~reqs[id].localEnded
    /\ PayloadEvents(Ids) < MaxData
    /\ LET r == [reqs[id] EXCEPT !.chunks = @ + 1]
       IN  reqs' = [reqs EXCEPT ![id] = Emit(r, ChunkFrame(r.chunks))]
    /\ UNCHANGED <<supervisorVars, idleVars, wireVars, localCall>>

\* res.once('end'): the end send is queued and the inner source completes;
\* socket.once('end'): the end send is queued and reqObserver.complete()
\* ends the PerRequest at once
LocalEnd(id) ==
    /\ reqs[id].stage = "streaming"
    /\ ~reqs[id].localEnded
    /\ LET r == Emit([reqs[id] EXCEPT !.localEnded = TRUE], EndFrame)
       IN  reqs' = [reqs EXCEPT ![id] =
                       IF r.kind = "ws" THEN Finish(r, "localEnd") ELSE r]
    /\ UNCHANGED <<supervisorVars, idleVars, wireVars, localCall>>

\* variant of LocalError: the error is not caught by httpRequest's
\* catchError and reaches connectToServer$
LocalErrorEscapes(id) ==
    /\ Live(reqs[id])
    /\ Fail("local", MaxRetry)

\* req.on('error'), res.once('error'), socket.once('error'), or the error
\* callback of req.write / socket.write
LocalError(id) ==
    /\ Live(reqs[id])
    /\ reqs' = [reqs EXCEPT ![id] = BadGateway(reqs[id])]
    /\ UNCHANGED <<supervisorVars, idleVars, wireVars, localCall>>

\* the callback of ws.send without error: the send completes; concatMap
\* subscribes the next buffered send, or the PerRequest may complete
SendDone(id) ==
    /\ reqs[id].txActive
    /\ LET r == reqs[id]
           s == IF r.txq # <<>>
                THEN [r EXCEPT !.sent = Append(@, Head(r.txq)),
                               !.txq = Tail(@)]
                ELSE [r EXCEPT !.txActive = FALSE]
       IN  reqs' = [reqs EXCEPT ![id] =
                       IF r.stage = "failing"
                       THEN Over(r, "error")
                       ELSE IF HttpComplete(s) THEN Finish(s, "complete")
                       ELSE s]
    /\ UNCHANGED <<supervisorVars, idleVars, wireVars, localCall>>

\* the callback of req.write / socket.write without error
LocalWriteDone(id) ==
    /\ reqs[id].rxActive = "write"
    /\ LET r == reqs[id]
       IN  reqs' = [reqs EXCEPT ![id] =
                       IF r.rxq # <<>>
                       THEN StartRx([r EXCEPT !.rxq = Tail(@)], Head(r.rxq))
                       ELSE [r EXCEPT !.rxActive = "none"]]
    /\ UNCHANGED <<supervisorVars, idleVars, wireVars, localCall>>

\* the callback of req.end / socket.end: next(1), takeWhile completes rx$;
\* the finalize of an upgraded request calls reqObserver.complete()
LocalEndDone(id) ==
    /\ reqs[id].rxActive = "end"
    /\ LET r == [reqs[id] EXCEPT !.rxDone = TRUE, !.rxActive = "none",
                                 !.rxq = <<>>]
       IN  reqs' = [reqs EXCEPT ![id] =
                       IF r.kind = "ws" THEN Finish(r, "remoteEnd")
                       ELSE IF HttpComplete(r) THEN Finish(r, "complete")
                       ELSE r]
    /\ UNCHANGED <<supervisorVars, idleVars, wireVars, localCall>>

(***************************************************************************)
(* Idle notifier: goIdleAndWaitForSignal.                                  *)
(***************************************************************************)
\* variant of Projection: every name of the value is compared, configured
\* or not
ProjectionOfAllNames(value) == <<value["app"], value["test"], value["other"]>>

\* opts.subdomains.map(s => value[s] ?? null); 0 stands for null
Projection(value) == [i \in DOMAIN Subdomains |-> value[Subdomains[i]]]

\* the comparator of distinctUntilChanged
SameTuple(a, b) == \A i \in 1..Len(a) : a[i] = b[i]

\* variant of Wake: the notifier's app is not deleted when the supervisor
\* goes back to the tunnel session
WakeKeepsApp(by, logged) ==
    /\ idle' = "null"
    /\ notifier' = "off"
    /\ lastProj' = <<>>
    /\ lastSnapshot' = NoSnapshot
    /\ idleClock' = 0
    /\ timeoutLeft' = 0
    /\ woke' = [by |-> by, logged |-> logged, count |-> woke.count + 1]
    /\ EmitStatus("connecting")
    /\ ws' = "connecting"
    /\ UNCHANGED <<app, retryCount, settleTimer, retryTimer, delaySeconds,
                   retryErr, failRun, cancelled, reqs, wireVars, localCall>>

\* goOutOfIdle(): idle$.next(null); handle$'s switchMap unsubscribes the
\* notifier (deleteApp) and subscribes connectToServer$
Wake(by, logged) ==
    /\ idle' = "null"
    /\ app' = FALSE
    /\ notifier' = "off"
    /\ lastProj' = <<>>
    /\ lastSnapshot' = NoSnapshot
    /\ idleClock' = 0
    /\ timeoutLeft' = 0
    /\ woke' = [by |-> by, logged |-> logged, count |-> woke.count + 1]
    /\ EmitStatus("connecting")
    /\ ws' = "connecting"
    /\ UNCHANGED <<retryCount, settleTimer, retryTimer, delaySeconds,
                   retryErr, failRun, cancelled, reqs, wireVars, localCall>>

\* variant of SignInOk: the timer of timeout starts anew when the sign-in
\* has completed
SignInOkRestartsTimeout ==
    /\ notifier = "signin"
    /\ notifier' = "watch"
    /\ timeoutLeft' = MaxIdleTicks
    /\ UNCHANGED <<supervisorVars, idle, app, lastProj, lastSnapshot,
                   idleClock, woke, reqs, wireVars, localCall>>

\* signInWithCustomToken resolves: onValue subscribes
SignInOk ==
    /\ notifier = "signin"
    /\ notifier' = "watch"
    /\ UNCHANGED <<supervisorVars, idle, app, lastProj, lastSnapshot,
                   idleClock, timeoutLeft, woke, reqs, wireVars, localCall>>

\* variant of SignInFail: without catchError the rejection errors handle$;
\* the app is deleted by the teardown and idle$ keeps its value
SignInFailEscapes ==
    /\ notifier = "signin"
    /\ notifier' = "off"
    /\ app' = FALSE
    /\ woke' = [by |-> "signin", logged |-> FALSE, count |-> woke.count]
    /\ UNCHANGED <<supervisorVars, idle, lastProj, lastSnapshot, idleClock,
                   timeoutLeft, reqs, wireVars, localCall>>

\* signInWithCustomToken rejects: observer.error -> catchError, which logs
\* the error (it is no TimeoutError) and calls goOutOfIdle
SignInFail ==
    /\ notifier = "signin"
    /\ Wake("signin", TRUE)

\* variant of Snapshot: without skip(1), the first snapshot passes
\* distinctUntilChanged and reaches tap(goOutOfIdle)
SnapshotNoSkip(value) ==
    /\ notifier = "watch"
    /\ LET p == Projection(value)
       IN  IF lastProj = <<>> \/ ~SameTuple(lastProj, p)
           THEN Wake("snapshot", FALSE)
           ELSE /\ lastSnapshot' = value
                /\ UNCHANGED <<supervisorVars, idle, app, notifier, lastProj,
                               idleClock, timeoutLeft, woke, reqs, wireVars, localCall>>

\* onValue delivers a snapshot
Snapshot(value) ==
    /\ notifier = "watch"
    /\ LET p == Projection(value)
       IN  IF lastProj = <<>>
           THEN /\ lastProj' = p
                /\ lastSnapshot' = value
                /\ UNCHANGED <<supervisorVars, idle, app, notifier,
                               idleClock, timeoutLeft, woke, reqs, wireVars, localCall>>
           ELSE IF SameTuple(lastProj, p)
                THEN /\ lastSnapshot' = value
                     /\ UNCHANGED <<supervisorVars, idle, app, notifier,
                                    lastProj, idleClock, timeoutLeft, woke,
                                    reqs, wireVars, localCall>>
                ELSE Wake("snapshot", FALSE)

\* onValue's error callback: observer.error -> catchError, which logs the
\* error and calls goOutOfIdle
SubscriptionError ==
    /\ notifier = "watch"
    /\ Wake("subscription", TRUE)

\* time passes while the timer of timeout(3600 * 1000) is running
Tick ==
    /\ notifier \in {"signin", "watch"}
    /\ timeoutLeft > 0
    /\ timeoutLeft' = timeoutLeft - 1
    /\ idleClock' = idleClock + 1
    /\ UNCHANGED <<supervisorVars, idle, app, notifier, lastProj,
                   lastSnapshot, woke, reqs, wireVars, localCall>>

\* the timer of timeout(3600 * 1000) fires: TimeoutError -> catchError, which
\* does not log it and calls goOutOfIdle
IdleTimeout ==
    /\ notifier \in {"signin", "watch"}
    /\ timeoutLeft = 0
    /\ Wake("timeout", FALSE)

(***************************************************************************)
(* Specifications.                                                         *)
(***************************************************************************)
SupervisorNext ==
    \/ Open
    \/ Settle
    \/ RetryTimerFires
    \/ \E json \in {"ok", "malformed"} : ReceiveGoIdle(json)
    \/ SignInOk
    \/ SignInFail
    \/ \E value \in [DbNames -> 0..MaxDbVal] : Snapshot(value)
    \/ SubscriptionError
    \/ Tick
    \/ IdleTimeout

RequestNext ==
    \/ \E id \in Ids, kind \in {"http", "ws"}, json \in {"ok", "malformed"},
          subdomain \in DescriptorSubdomains :
            ReceiveRequest(id, kind, json, subdomain)
    \/ \E id \in Ids : ReceiveData(id)
    \/ \E id \in Ids : ReceiveEnd(id)
    \/ \E id \in Ids : LocalResponse(id)
    \/ \E id \in Ids : LocalUpgrade(id)
    \/ \E id \in Ids : LocalData(id)
    \/ \E id \in Ids : LocalEnd(id)
    \/ \E id \in Ids : LocalError(id)
    \/ \E id \in Ids : SendDone(id)
    \/ \E id \in Ids : LocalWriteDone(id)
    \/ \E id \in Ids : LocalEndDone(id)

Next ==
    \/ SupervisorNext
    \/ ChannelError
    \/ ChannelClose
    \/ RequestNext

Spec == Init /\ [][Next]_vars

\* the supervisor alone, with a long run of failures
BackoffChannelError ==
    /\ ws \in {"connecting", "open"}
    /\ Fail("channel", MaxBackoffRetry)

BackoffChannelClose ==
    /\ ws = "open"
    /\ Fail("close", MaxBackoffRetry)

NextBackoff ==
    \/ SupervisorNext
    \/ BackoffChannelError
    \/ BackoffChannelClose

SpecBackoff == Init /\ [][NextBackoff]_vars

\* variant of Unsubscribe: the notifier's teardown does not delete the app
UnsubscribeKeepsApp ==
    /\ ws # "none" \/ retryTimer \/ notifier # "off"
    /\ ws' = "none"
    /\ settleTimer' = FALSE
    /\ retryTimer' = FALSE
    /\ delaySeconds' = 0
    /\ retryErr' = "none"
    /\ reqs' = TornDown
    /\ cancelled' = Cardinality(InFlight)
    /\ notifier' = "off"
    /\ lastProj' = <<>>
    /\ lastSnapshot' = NoSnapshot
    /\ idleClock' = 0
    /\ timeoutLeft' = 0
    /\ UNCHANGED <<app, status, repeated, retryCount, failRun, idle, woke,
                   wireVars, localCall>>

\* the subscriber of handle$ unsubscribes: switchMap unsubscribes the inner
\* it has, the tunnel session (WebSocket closed, timers cleared, every
\* PerRequest unsubscribed) or the notifier (deleteApp); idle$ keeps its
\* value and nothing is emitted
Unsubscribe ==
    /\ ws # "none" \/ retryTimer \/ notifier # "off"
    /\ ws' = "none"
    /\ settleTimer' = FALSE
    /\ retryTimer' = FALSE
    /\ delaySeconds' = 0
    /\ retryErr' = "none"
    /\ reqs' = TornDown
    /\ cancelled' = Cardinality(InFlight)
    /\ app' = FALSE
    /\ notifier' = "off"
    /\ lastProj' = <<>>
    /\ lastSnapshot' = NoSnapshot
    /\ idleClock' = 0
    /\ timeoutLeft' = 0
    /\ UNCHANGED <<status, repeated, retryCount, failRun, idle, woke,
                   wireVars, localCall>>

\* the supervisor alone, with a subscriber that may unsubscribe
NextIdle ==
    \/ NextBackoff
    \/ Unsubscribe

SpecIdle == Init /\ [][NextIdle]_vars

\* one session in which the relay may repeat the http / ws frame of an id
NextRegistry ==
    \/ Open
    \/ ChannelError
    \/ RetryTimerFires
    \/ \E id \in Ids, kind \in {"http", "ws"} :
          ReceiveRequest(id, kind, "ok", "app")
    \/ \E id \in Ids, kind \in {"http", "ws"} : ReceiveKnownRequest(id, kind)
    \/ \E id \in Ids : ReceiveData(id)
    \/ \E id \in Ids : ReceiveEnd(id)
    \/ \E id \in Ids : LocalResponse(id)
    \/ \E id \in Ids : LocalUpgrade(id)
    \/ \E id \in Ids : SendDone(id)
    \/ \E id \in Ids : LocalWriteDone(id)
    \/ \E id \in Ids : LocalEndDone(id)

SpecRegistry == Init /\ [][NextRegistry]_vars

(***************************************************************************)
(* The wire: send and data$ on an open channel.                            *)
(***************************************************************************)
\* variant of WireSend: the header and the payload go out in two ws.send
\* calls
WireSendInTwoWrites(f) ==
    /\ ws = "open"
    /\ CanEncode(f)
    /\ Len(channel) + Len(delivered) < MaxChannel
    /\ LET all == Encode(f)
           header == Len(all) - Len(f.msg)
       IN  channel' = channel \o <<SubSeq(all, 1, header),
                                   SubSeq(all, header + 1, Len(all))>>
    /\ sentFrames' = Append(sentFrames, f)
    /\ UNCHANGED <<supervisorVars, idleVars, reqs, localCall, received, decoded,
                   delivered>>

\* send(id, type, msg): one buffer is assembled and handed to ws.send in one
\* call
WireSend(f) ==
    /\ ws = "open"
    /\ CanEncode(f)
    /\ Len(channel) + Len(delivered) < MaxChannel
    /\ channel' = Append(channel, Encode(f))
    /\ sentFrames' = Append(sentFrames, f)
    /\ UNCHANGED <<supervisorVars, idleVars, reqs, localCall, received, decoded,
                   delivered>>

\* ws.on('message') of data$: map decodes, filter(v => !!v) drops null, the
\* rest goes to mergeMap and to the getStreamData subscribers
ReceiveMessage(m) ==
    /\ ws = "open"
    /\ received' = m
    /\ decoded' = Decode(m)
    /\ IF Decode(m).ok
       THEN /\ Len(channel) + Len(delivered) < MaxChannel
            /\ delivered' = Append(delivered, Decode(m))
       ELSE delivered' = delivered
    /\ UNCHANGED <<supervisorVars, idleVars, reqs, localCall, channel, sentFrames>>

\* ws.on('open') with the pending settle left aside
WireOpen ==
    /\ ws = "connecting"
    /\ ws' = "open"
    /\ UNCHANGED <<status, repeated, retryCount, settleTimer, retryTimer,
                   delaySeconds, retryErr, failRun, cancelled, idleVars, reqs,
                   wireVars, localCall>>

NextWire ==
    \/ WireOpen
    \/ \E f \in ValidFrames : WireSend(f)
    \/ \E m \in InboundMessages : ReceiveMessage(m)

SpecWire == Init /\ [][NextWire]_vars

(***************************************************************************)
(* The codec alone: one frame is encoded by send, travels as one message,  *)
(* and is decoded by data$'s map.                                          *)
(***************************************************************************)
\* the frame given to send is any of CodecFrames
InitCodec ==
    /\ InitSession
    /\ sentFrames \in {<<f>> : f \in CodecFrames}
    /\ channel = <<>>
    /\ received = <<>>
    /\ decoded = Nothing
    /\ delivered = <<>>
    /\ localCall = NoCall

\* send assembles the buffer and hands it to ws.send
CodecSend ==
    /\ channel = <<>>
    /\ CanEncode(sentFrames[1])
    /\ channel' = <<Encode(sentFrames[1])>>
    /\ UNCHANGED <<supervisorVars, idleVars, reqs, localCall, sentFrames, received,
                   decoded, delivered>>

\* the buffer comes back in ws.on('message') and data$'s map decodes it
CodecReceive ==
    /\ channel # <<>>
    /\ received = <<>>
    /\ received' = channel[1]
    /\ decoded' = Decode(channel[1])
    /\ delivered' = IF Decode(channel[1]).ok
                    THEN <<Decode(channel[1])>> ELSE <<>>
    /\ UNCHANGED <<supervisorVars, idleVars, reqs, localCall, channel, sentFrames>>

NextCodec ==
    \/ CodecSend
    \/ CodecReceive

SpecCodec == InitCodec /\ [][NextCodec]_vars

(***************************************************************************)
(* The local call alone: httpRequest for one tunnel and one descriptor.    *)
(***************************************************************************)
\* the tunnel found for the descriptor's subdomain and the descriptor are
\* any of those explored
InitLocalCall ==
    /\ InitSession
    /\ InitWire
    /\ localCall \in [tunnel : Tunnels, descriptor : Descriptors,
                       options : {NoOptions}]

\* the subscribe function of httpRequest's Observable from the removal of
\* the host header to request(...)
MakeLocalCall ==
    /\ ~localCall.options.made
    /\ localCall' = [localCall EXCEPT
                        !.options = RequestOptions(localCall.tunnel,
                                                   localCall.descriptor)]
    /\ UNCHANGED <<supervisorVars, idleVars, reqs, wireVars>>

NextLocalCall == MakeLocalCall

SpecLocalCall == InitLocalCall /\ [][NextLocalCall]_vars

\* the supervisor alone with fair timers: a pending timer (retry delay,
\* idle timeout) eventually fires and time does not stop while one runs
SpecFair ==
    /\ Init
    /\ [][NextBackoff]_vars
    /\ WF_vars(RetryTimerFires)
    /\ WF_vars(Tick)
    /\ WF_vars(IdleTimeout)

(***************************************************************************)
(* Properties.                                                             *)
(***************************************************************************)
Types(s) == [i \in DOMAIN s |-> s[i].type]

Count(s, type) == Cardinality({i \in DOMAIN s : s[i].type = type})

\* s is a prefix of a word of (head data* end?) | (data+ end?) | badgateway
InFrameLanguage(s) ==
    \/ s = <<>>
    \/ Types(s) = <<"badgateway">>
    \/ /\ s[1].type \in {"head", "data"}
       /\ \A i \in 2..Len(s) :
            \/ s[i].type = "data"
            \/ s[i].type = "end" /\ i = Len(s)

\* as InFrameLanguage, where one badgateway may end a word that began with
\* head or data
InFrameLanguageOrBadGateway(s) ==
    \/ InFrameLanguage(s)
    \/ /\ Len(s) >= 2
       /\ s[Len(s)].type = "badgateway"
       /\ InFrameLanguage(SubSeq(s, 1, Len(s) - 1))
       /\ s[1].type # "badgateway"

\* C1 (as stated): the frames sent for a request id always form a prefix of
\* a word of (head data* end?) | (data+ end?) | badgateway; no badgateway
\* follows a head, data or end frame.
C1_FramesInLanguage == \A id \in Ids : InFrameLanguage(reqs[id].sent)

\* C1 (amended): the frames sent for a request id always form a prefix of a
\* word of (head data* end?) | (data+ end?) | badgateway, or such a word
\* beginning with head or data followed by one final badgateway: nothing
\* follows a badgateway, and no head, data or end follows an end.
C1_FramesInLanguageOrBadGateway ==
    \A id \in Ids : InFrameLanguageOrBadGateway(reqs[id].sent)

\* a request whose local call failed after its head and a chunk were sent
C1_Witness ==
    \E id \in Ids :
        Types(reqs[id].sent) = <<"head", "data", "badgateway">>

\* the effects the failure of PerRequest id is to have: one badgateway frame
\* for the id as its last frame, the channel, the status and the retry state
\* untouched, every other PerRequest untouched
FailureContained(id) ==
    /\ reqs'[id].sent = Append(reqs[id].sent, BadGatewayFrame)
    /\ Count(reqs'[id].sent, "badgateway") = 1
    /\ reqs'[id].stage = "failing"
    /\ ws' = ws /\ ws = "open"
    /\ UNCHANGED <<status, retryCount, retryTimer, settleTimer, idle>>
    /\ \A j \in Ids \ {id} : reqs'[j] = reqs[j]

\* C2: a failure of one PerRequest (unknown subdomain, local connect, local
\* I/O in mid-stream) sends exactly one badgateway frame for its id and no
\* further frame for it, and leaves the channel open, the status unchanged
\* and every other PerRequest as it was.
C2_FailureIsOneBadGateway ==
    [][\A id \in Ids :
         /\ LocalError(id) => FailureContained(id)
         /\ (\E kind \in {"http", "ws"} :
               ReceiveRequest(id, kind, "ok", "missing"))
              => FailureContained(id)
         /\ reqs[id].how = "error"
              => \/ reqs'[id].sent = reqs[id].sent
                 \/ reqs'[id] = NoReq /\ ws' # "open"]_vars

\* one request has failed in mid-stream, the other one is streaming on the
\* open channel
C2_Witness ==
    \E id \in Ids, j \in Ids :
        /\ id # j
        /\ reqs[id].how = "error"
        /\ Len(reqs[id].sent) > 1
        /\ reqs[j].stage = "streaming"
        /\ ws = "open"

\* C3 (as stated): an http or ws frame with a malformed JSON descriptor is
\* answered by one badgateway frame for its id and leaves the tunnel as it
\* was: channel open, no disconnected status, no retry scheduled.
C3_MalformedDescriptorIsBadGateway ==
    [][\A id \in Ids, kind \in {"http", "ws"},
          subdomain \in DescriptorSubdomains :
         ReceiveRequest(id, kind, "malformed", subdomain)
           => /\ Types(reqs'[id].sent) = <<"badgateway">>
              /\ ws' = "open"
              /\ status' = status
              /\ ~retryTimer']_vars

\* min(600, round(1.8^(k-1))) for k = 1, 2, ...
ExpectedDelays ==
    <<1, 2, 3, 6, 10, 19, 34, 61, 110, 198, 357, 600, 600, 600, 600, 600>>

ExpectedDelay(k) ==
    IF k <= Len(ExpectedDelays) THEN ExpectedDelays[k] ELSE DelayCap

\* C4: in a run of failures with no settle in between, the k-th wait is
\* min(600, round(1.8^(k-1))) seconds, and every transition into
\* disconnected increments the retry counter by exactly one.
C4_BackoffSequence ==
    [][/\ (retryTimer' /\ ~retryTimer)
          => /\ failRun' = failRun + 1
             /\ delaySeconds' = ExpectedDelay(failRun')
       /\ (status' = "disconnected" /\ status # "disconnected")
          => retryCount' = retryCount + 1
       /\ retryCount' # retryCount
          => \/ status' = "disconnected" /\ status # "disconnected"
             \/ retryCount' = 1]_vars

\* the twelfth consecutive failure waits the capped 600 seconds
C4_Witness == retryTimer /\ failRun = 12 /\ delaySeconds = DelayCap

\* C5: retryCount is reset to 1 and connected is emitted only when the
\* delay(500) of an open channel elapses; a failure or teardown before that
\* cancels the pending emission for good and leaves the counter un-reset;
\* the failure that follows a settle waits 1 second.
C5_SettleResetsCounter ==
    [][/\ (retryCount' = 1 /\ retryCount # 1)
          => settleTimer /\ ~settleTimer' /\ ws = "open" /\ ws' = "open"
       /\ (status' = "connected" /\ status # "connected")
          => settleTimer /\ ~settleTimer' /\ ws = "open" /\ retryCount' = 1
       /\ (settleTimer /\ ws' # "open")
          => ~settleTimer' /\ retryCount' >= retryCount
                           /\ status' # "connected"
       /\ settleTimer' => ws' = "open"
       /\ (status = "connected" /\ retryTimer' /\ ~retryTimer)
          => delaySeconds' = 1
       /\ (retryCount > 1 /\ retryTimer' /\ ~retryTimer)
          => delaySeconds' = ExpectedDelay(retryCount)]_vars

\* an open channel closed before its delay(500) elapsed, as the second
\* failure in a row: the counter was not reset and the wait is 2 s
C5_Witness ==
    /\ retryTimer /\ retryErr = "close"
    /\ failRun = 2 /\ retryCount = 3 /\ delaySeconds = 2

\* C6 (as stated): the request headers of an http PerRequest are flushed to
\* the local target as soon as the PerRequest is created, so that the single
\* http frame alone lets the local target answer.
C6_HeadersFlushedAtCreation ==
    \A id \in Ids :
        (reqs[id].kind = "http" /\ reqs[id].stage = "waiting")
            => reqs[id].headersSent

\* the frames an upgraded request is to have sent once the local socket has
\* half-closed after n chunks
UpgradedFrames(n) ==
    <<UpgradeFrame>> \o [k \in 1..n |-> ChunkFrame(k)] \o <<EndFrame>>

\* C7 (as stated): for an upgraded PerRequest that ended by the local
\* half-close, every chunk read from the local socket was sent as one data
\* frame in read order, followed by one end frame, whatever the
\* interleaving with the completion of earlier channel writes.
C7_LocalChunksAndEndSent ==
    \A id \in Ids :
        (reqs[id].kind = "ws" /\ reqs[id].how = "localEnd")
            => reqs[id].sent = UpgradedFrames(reqs[id].chunks)

\* the payloads written, or queued to be written, to the local socket
LocalWrites(r) ==
    LET q == SelectSeq(r.rxq, LAMBDA f : f.type = "data")
    IN r.localIn \o [i \in 1..Len(q) |-> q[i].n]

\* C8 (as stated): for an upgraded PerRequest every inbound data frame
\* received since the ws frame is written to the local socket in receive
\* order, and an inbound end closes the local write side, whether the
\* frames arrived before or after the local upgrade response.
C8_InboundReachesLocalSocket ==
    \A id \in Ids :
        (reqs[id].kind = "ws" /\ reqs[id].stage = "streaming")
            => /\ LocalWrites(reqs[id]) = [i \in 1..reqs[id].recv |-> i]
               /\ reqs[id].relayEnd
                    => \/ reqs[id].localClosed
                       \/ \E i \in DOMAIN reqs[id].rxq :
                            reqs[id].rxq[i].type = "end"

\* C9: for an upgraded PerRequest the first frame sent after the local
\* upgrade response is the one data frame holding the synthesized status
\* line and header block; it is sent once, and every data frame carrying
\* bytes of the local socket comes after it.
C9_UpgradeHeadFirst ==
    \A id \in Ids :
        LET r == reqs[id] IN
        r.kind = "ws" =>
            /\ r.stage = "streaming"
                 => r.sent # <<>> /\ r.sent[1] = UpgradeFrame
            /\ \A i \in DOMAIN r.sent :
                 /\ r.sent[i] = UpgradeFrame => i = 1
                 /\ r.sent[i].msg = "chunk"
                      => i > 1 /\ r.sent[1] = UpgradeFrame
            /\ \A i \in DOMAIN r.txq : r.txq[i] # UpgradeFrame

\* an upgraded request that sent the synthesized head and then two chunks
C9_Witness ==
    \E id \in Ids :
        reqs[id].sent = <<UpgradeFrame, ChunkFrame(1), ChunkFrame(2)>>

\* C10: when a session ends, by a channel failure or by go-idle, every
\* in-flight PerRequest is cancelled; none of them is live, or has a frame
\* waiting to be written, while there is no open channel, so the next
\* session starts without any PerRequest.
C10_NoRequestOutlivesSession ==
    ws # "open" => reqs = [id \in Ids |-> NoReq]

\* two requests were in flight when the session ended, and the next
\* session's channel is being opened
C10_Witness ==
    /\ cancelled = 2
    /\ ws = "connecting"
    /\ status = "connecting"

\* the transitions of the supervisor's state table
TableTransitions ==
    { <<"connecting", "connected">>, <<"connecting", "disconnected">>,
      <<"connected", "idle">>, <<"connected", "disconnected">>,
      <<"disconnected", "connecting">>, <<"idle", "connecting">> }

\* C11 (as stated): the initial status is connecting and every status
\* transition is one of connecting->connected, connecting->disconnected,
\* connected->idle, connected->disconnected, disconnected->connecting,
\* idle->connecting; idle is entered only from connected.
C11_TableTransitionsOnly ==
    /\ status = "connecting"
    /\ [][status' # status => <<status, status'>> \in TableTransitions]_vars

\* C11 (amended): the initial status is connecting and every status
\* transition is one of those six or connecting->idle: a go-idle frame
\* received on an open channel whose settle delay has not elapsed takes the
\* supervisor from connecting to idle.
C11_TableTransitionsOrEarlyIdle ==
    /\ status = "connecting"
    /\ [][status' # status
            => <<status, status'>>
                 \in TableTransitions \cup {<<"connecting", "idle">>}]_vars

\* idle with a retry counter above 1: no settle since the last failure, so
\* idle was entered from connecting
C11_Witness == status = "idle" /\ retryCount > 1 /\ notifier = "signin"

\* C12: handle$ never emits the status it emitted just before, over any
\* sequence of opens, failures, go-idle frames, wake-ups and timeouts.
C12_NoRepeatedStatus == ~repeated

\* a failure, a reconnection, an idle period entered before the settle and
\* a wake-up by a snapshot have all emitted their statuses
C12_Witness ==
    /\ status = "connecting"
    /\ woke.by = "snapshot"
    /\ retryCount = 2
    /\ cancelled > 0

\* C13: a go-idle frame on a connected session makes the status idle and
\* tears the session down (channel closed, settle cancelled, every
\* PerRequest unsubscribed) in the step that starts the notifier, so the
\* notifier never runs beside a session; the first snapshot leaves the
\* agent idle; the next snapshot whose projected tuple differs makes the
\* status connecting with a new channel and no notifier.
C13_GoIdleThenWakeOnChange ==
    [][/\ (ReceiveGoIdle("ok") /\ status = "connected")
          => /\ status' = "idle"
             /\ notifier' = "signin" /\ app' /\ lastProj' = <<>>
       /\ notifier' # "off"
          => /\ ws' = "none" /\ ~settleTimer'
             /\ reqs' = [id \in Ids |-> NoReq]
             /\ status' = "idle"
       /\ \A value \in [DbNames -> 0..MaxDbVal] :
            Snapshot(value) =>
              IF lastProj = <<>>
              THEN status' = "idle" /\ notifier' = "watch" /\ ws' = "none"
              ELSE Projection(value) # lastProj
                     => /\ status' = "connecting" /\ ws' = "connecting"
                        /\ notifier' = "off" /\ ~app'
                        /\ reqs' = [id \in Ids |-> NoReq]]_vars

\* a session with two requests in flight went idle and a changed snapshot
\* has started the next session
C13_Witness ==
    /\ woke.by = "snapshot"
    /\ status = "connecting" /\ ws = "connecting"
    /\ cancelled = 2
    /\ retryCount = 1

\* C14: the timer of the idle timeout runs from the moment idle began and
\* is restarted neither by the sign-in nor by a snapshot; it fires when the
\* full 3600 s (MaxIdleTicks ticks) have elapsed, whether or not the
\* sign-in completed or a snapshot was delivered, and then the status
\* becomes connecting with a new channel and nothing is logged as an error;
\* the agent is never idle beyond that time.
C14_TimeoutAfterFullHour ==
    [][/\ IdleTimeout
          => /\ idleClock = MaxIdleTicks
             /\ status = "idle" /\ status' = "connecting"
             /\ ws' = "connecting"
             /\ woke'.by = "timeout" /\ ~woke'.logged
       /\ notifier' # "off"
          => /\ idleClock' <= MaxIdleTicks
             /\ idleClock' + timeoutLeft' = MaxIdleTicks
       /\ (notifier = "signin" /\ idleClock = MaxIdleTicks)
          => ENABLED IdleTimeout]_vars

\* the timeout has ended an idle period, silently
C14_Witness ==
    /\ woke = [by |-> "timeout", logged |-> FALSE, count |-> 1]
    /\ status = "connecting"

\* snapshot value differs from the previous snapshot in a configured name
DiffersInConfiguredName(value) ==
    \E i \in DOMAIN Subdomains :
        value[Subdomains[i]] # lastSnapshot[Subdomains[i]]

\* C15: in one idle period the first snapshot never signals wake-up; a
\* later snapshot signals if and only if it differs from the previous
\* snapshot in a configured name (a change of other names only does not
\* wake); a wake-up tears the notifier down, and no second wake-up is
\* signalled in the period.
C15_WakeOncePerIdlePeriod ==
    [][/\ \A value \in [DbNames -> 0..MaxDbVal] :
            Snapshot(value) =>
              /\ woke'.count = woke.count + 1
                   <=> /\ lastSnapshot # NoSnapshot
                       /\ DiffersInConfiguredName(value)
              /\ woke'.count = woke.count => lastSnapshot' = value
       /\ woke'.count > woke.count
            => /\ woke.count = 0 /\ woke'.count = 1
               /\ notifier # "off" /\ notifier' = "off"
               /\ app /\ ~app' /\ idle' = "null"
       /\ woke'.count <= 1]_vars

\* a snapshot has signalled the one wake-up of its idle period and the
\* notifier is gone
C15_Witness ==
    /\ woke = [by |-> "snapshot", logged |-> FALSE, count |-> 1]
    /\ notifier = "off" /\ ~app /\ idle = "null"

\* C16: with fair timers the supervisor never stays disconnected or idle:
\* every disconnected state has its retry timer pending and is followed by
\* connecting, however many retries came before, and every idle state is
\* followed by connecting (by wake-up, notifier error or the timeout).
C16_AlwaysReconnects ==
    /\ [](status = "disconnected" => retryTimer)
    /\ (status = "disconnected") ~> (status = "connecting")
    /\ (status = "idle") ~> (status = "connecting")

\* connecting again after the longest run of failures explored
C16_Witness ==
    /\ status = "connecting"
    /\ failRun = MaxBackoffRetry - 1
    /\ retryCount = MaxBackoffRetry

\* C17: decode(encode(f)) = f for every valid frame f (version 1, 16-byte
\* id, type whose encoding has 0..255 bytes, payload of any length, empty
\* included): the buffer send assembles has the layout version(1) ||
\* id(16) || typeLen(1) || type || payload, and what data$'s map makes of
\* it is f.
C17_DecodeInvertsEncode ==
    LET f == sentFrames[1] IN
    /\ channel # <<>>
         => /\ Len(channel[1]) = 18 + Len(Utf8Encode(f.type)) + Len(f.msg)
            /\ channel[1][1] = 1
            /\ SubSeq(channel[1], 2, 17) = f.id
            /\ channel[1][18] = Len(Utf8Encode(f.type))
    /\ received # <<>>
         => /\ decoded = Decoded(f.id, f.type, f.msg)
            /\ delivered = <<decoded>>

\* a frame with a 255-byte type and an empty payload came back as sent
C17_Witness ==
    /\ decoded.ok
    /\ Len(decoded.type) = 255
    /\ decoded.msg = <<>>
    /\ Len(received) = 18 + 255

\* C18: an inbound message shorter than 18 bytes or whose version byte is
\* not 1 is dropped: it decodes to nothing, is not delivered to the
\* dispatcher or to a sub-stream, no frame is sent, and the channel, the
\* status, the retry counter and the PerRequests stay as they were.
C18_InvalidMessageDropped ==
    [][\A m \in InboundMessages :
         (ReceiveMessage(m) /\ (Len(m) < 18 \/ m[1] # 1))
            => /\ decoded' = Nothing
               /\ delivered' = delivered
               /\ channel' = channel
               /\ UNCHANGED <<ws, status, retryCount, retryTimer, reqs>>]_vars

\* a message of version 2 and full length was received after a frame had
\* been delivered, and nothing more was delivered
C18_Witness ==
    /\ Len(received) >= 18 /\ received[1] = 2
    /\ decoded = Nothing
    /\ Len(delivered) = 1
    /\ ws = "open"

\* C19: every buffer on the channel is one whole frame, in the order of the
\* send calls, also when PerRequests with different ids send in turn: the
\* outbound stream is the concatenation of the encodings of the frames
\* sent.
C19_ChannelCarriesWholeFrames ==
    /\ Len(channel) = Len(sentFrames)
    /\ \A i \in DOMAIN channel :
         /\ channel[i] = Encode(sentFrames[i])
         /\ Len(channel[i])
              = 18 + Len(Utf8Encode(sentFrames[i].type))
                   + Len(sentFrames[i].msg)

\* two frames with different ids were sent one after the other
C19_Witness ==
    /\ Len(channel) = 2
    /\ sentFrames[1].id # sentFrames[2].id
    /\ sentFrames[1].msg # <<>>

\* C20: an error while idle that is not the timeout (the sign-in is
\* rejected, or the subscription reports an error) is logged and wakes the
\* supervisor: idle$ is reset, the notifier and its app are torn down, the
\* status goes from idle to connecting with a new session being opened, no
\* retry is scheduled and the retry counter is not touched; the status
\* stream goes on, the new session can open.
C20_IdleErrorWakes ==
    /\ [](woke.by \in {"signin", "subscription"} /\ status = "connecting"
            => /\ woke.logged
               /\ ws = "connecting"
               /\ idle = "null"
               /\ notifier = "off"
               /\ ~app
               /\ ENABLED Open)
    /\ [][(SignInFail \/ SubscriptionError)
            => /\ status = "idle"
               /\ status' = "connecting"
               /\ ws' = "connecting"
               /\ woke'.by \in {"signin", "subscription"}
               /\ woke'.logged
               /\ woke'.count = woke.count + 1
               /\ retryCount' = retryCount
               /\ ~retryTimer'
               /\ reqs' = reqs]_vars

\* the sign-in was rejected, the rejection was logged, and the supervisor
\* is connecting again
C20_Witness ==
    /\ woke = [by |-> "signin", logged |-> TRUE, count |-> 1]
    /\ status = "connecting"
    /\ ws = "connecting"

\* the end frame of the local response has been written to the channel
EndFrameWritten(r) ==
    /\ r.localEnded
    /\ \E k \in DOMAIN r.sent : r.sent[k] = EndFrame
    /\ ~r.txActive
    /\ r.txq = <<>>

\* C21 (as stated): a PerRequest is destroyed at the first of the local
\* call's orderly end, an inbound end frame, an error or the teardown of
\* the session; in particular an http PerRequest is no longer live once its
\* local response has ended and its end frame has been written, whether or
\* not an end frame has come from the relay.
C21_DestroyedAtLocalEnd ==
    \A id \in Ids :
        (reqs[id].kind = "http" /\ EndFrameWritten(reqs[id]))
            => ~Live(reqs[id])

\* C22 (as stated): when the session is cancelled (channel failure, go-idle)
\* every in-flight PerRequest is unsubscribed, and the teardown of each of
\* them leaves its local call closed (req.end / socket.end has been
\* called), for http and ws requests, before and after the local response
\* or upgrade.
C22_TeardownClosesLocalCalls ==
    [][\A id \in Ids :
         (id \in InFlight /\ reqs'[id] = NoReq)
            => Over(reqs[id], "teardown").localClosed]_vars

\* C23 (as stated): an http or ws frame creates a PerRequest only when no
\* PerRequest of its id is live; a frame of these types for a known id goes
\* to the sub-stream of the id and creates nothing, so that no id ever has
\* more than one PerRequest (one local call).
C23_OnePerRequestPerId ==
    \A id \in Ids : reqs[id].twins = 0

\* C24: an error of the channel while connecting or connected, and a close
\* of the open channel before or after the settle delay, end the session
\* as a failure: 'disconnected' is emitted, the WebSocket is given up, the
\* pending settle is cancelled, every PerRequest is unsubscribed, and a
\* retry is scheduled with the delay of the current retry counter.  (A
\* close before the channel opened comes behind the error event of the
\* same WebSocket and is part of ChannelError.)
C24_ErrorOrCloseIsFailure ==
    [][(ChannelError \/ ChannelClose)
          => /\ status \in {"connecting", "connected"}
             /\ status' = "disconnected"
             /\ ws' = "none"
             /\ ~settleTimer'
             /\ retryTimer'
             /\ delaySeconds' = DelaySeconds(retryCount)
             /\ retryCount' = retryCount + 1
             /\ reqs' = [id \in Ids |-> NoReq]]_vars

\* the open channel was closed with a request in flight, and the first
\* retry is pending
C24_Witness ==
    /\ status = "disconnected"
    /\ retryErr = "close"
    /\ retryTimer
    /\ failRun = 1
    /\ cancelled = 1
    /\ delaySeconds = 1

\* C25: the supervisor has the tunnel session (a WebSocket, a pending
\* settle or a pending retry) or the idle notifier (its app and its
\* subscription), never both, and idle$ holds a descriptor exactly while
\* the notifier is there; a WebSocket is created only when there is none
\* and neither notifier nor app is left, and the notifier is started only
\* with the WebSocket closed.
C25_OneSessionOrNotifier ==
    /\ [](~(/\ (ws # "none" \/ settleTimer \/ retryTimer)
            /\ (app \/ notifier # "off")))
    /\ [](retryTimer => ws = "none")
    /\ []((idle = "descriptor") <=> (notifier # "off"))
    /\ [][(ws # "connecting" /\ ws' = "connecting")
             => ws = "none" /\ ~app' /\ notifier' = "off"]_vars
    /\ [][(notifier = "off" /\ notifier' # "off")
             => ws' = "none" /\ ~settleTimer' /\ app']_vars

\* the notifier is watching the database after a session with a request in
\* flight was given up for it, and no WebSocket exists
C25_Witness ==
    /\ notifier = "watch"
    /\ app
    /\ lastProj # <<>>
    /\ ws = "none"
    /\ cancelled = 1
    /\ ~retryTimer

\* the data frames received for an id so far, in receive order
ReceivedData(r) == [k \in 1..r.recv |-> k]

\* C26 (as stated): the inbound frames of an id are applied to its local
\* call in receive order and one at a time: a write or a close starts only
\* when no earlier write of the id is awaited (at the arrival of the frame,
\* or at the completion of the write before it), what has been written or
\* waits to be written is what was received, and the local request body or
\* socket is closed for an inbound end only once every data frame received
\* before it has been written.  The condition reads the PerRequest of the
\* id alone.
C26_InboundAppliedInOrder ==
    /\ [](\A id \in Ids :
            LET r == reqs[id] IN
            /\ (Live(r) /\ r.rxSub) => LocalWrites(r) = ReceivedData(r)
            /\ (Live(r) /\ r.rxActive = "end") => r.localIn = ReceivedData(r))
    /\ [][\A id \in Ids :
            LET r == reqs[id] IN
            (/\ Live(reqs'[id])
             /\ \/ reqs'[id].localIn # r.localIn
                \/ reqs'[id].rxActive = "end" /\ r.rxActive # "end")
              => \/ r.rxActive = "none" /\ r.rxq = <<>>
                 \/ r.rxActive = "write" /\ LocalWriteDone(id)]_vars

\* the data frames among s that carry chunks of the local call
SentChunks(s) == SelectSeq(s, LAMBDA f : f.msg = "chunk")

\* head (or the synthesized upgrade head) first, the chunks in the order the
\* local call produced them, end after every chunk, and nothing but a
\* badgateway after end
CausalOrder(r) ==
    /\ SentChunks(r.sent) = [k \in 1..Len(SentChunks(r.sent)) |-> ChunkFrame(k)]
    /\ \A i \in DOMAIN r.sent :
         /\ r.sent[i] \in {HeadFrame, UpgradeFrame} => i = 1
         /\ r.sent[i].msg = "chunk"
              => i > 1 /\ r.sent[1] \in {HeadFrame, UpgradeFrame}
         /\ r.sent[i] = EndFrame
              => /\ Len(SentChunks(SubSeq(r.sent, 1, i))) = r.chunks
                 /\ \A j \in DOMAIN r.sent : j > i => r.sent[j] = BadGatewayFrame

\* a step hands one of the frames F of id to ws.send
StartsWrite(id, F) ==
    /\ Len(reqs'[id].sent) = Len(reqs[id].sent) + 1
    /\ reqs'[id].sent[Len(reqs'[id].sent)] \in F

\* the write before it has completed: none is awaited, or the step is the
\* callback of the one that was
PreviousWriteDone(id) == ~reqs[id].txActive \/ SendDone(id)

\* C27 (as stated): the frames of a PerRequest are handed to the channel in
\* causal order and one at a time: every frame's write starts only after
\* the write of the frame before it, for that request, has completed.
C27_OutboundOneAtATime ==
    /\ [](\A id \in Ids : CausalOrder(reqs[id]))
    /\ [][\A id \in Ids :
            StartsWrite(id, {HeadFrame, UpgradeFrame, EndFrame, BadGatewayFrame}
                              \cup {ChunkFrame(k) : k \in 1..(MaxData + 1)})
              => PreviousWriteDone(id)]_vars

\* C27 (amended): the head, data and end frames of a PerRequest are handed
\* to the channel in causal order and one at a time, each write starting
\* only after the one before it has completed; the badgateway frame of a
\* failure is handed over at once, also while a write is awaited, and is
\* the last frame of the request.
C27_HeadDataEndOneAtATime ==
    /\ [](\A id \in Ids :
            /\ CausalOrder(reqs[id])
            /\ \A i \in DOMAIN reqs[id].sent :
                 reqs[id].sent[i] = BadGatewayFrame => i = Len(reqs[id].sent))
    /\ [][\A id \in Ids :
            /\ StartsWrite(id, {HeadFrame, UpgradeFrame, EndFrame}
                                 \cup {ChunkFrame(k) : k \in 1..(MaxData + 1)})
                 => PreviousWriteDone(id)
            /\ StartsWrite(id, {BadGatewayFrame})
                 => LocalError(id) \/ ~Live(reqs[id])]_vars

\* the head and the first chunk of a response were handed over, the second
\* chunk and the end wait for the write in progress
C27_Witness ==
    \E id \in Ids :
        /\ reqs[id].sent = <<HeadFrame, ChunkFrame(1)>>
        /\ reqs[id].txq = <<ChunkFrame(2), EndFrame>>
        /\ reqs[id].txActive

\* C28: the app (and with it the database session) that the notifier
\* creates exists only while the notifier is subscribed, in an idle period;
\* every step that ends the notifier (a changed snapshot, the timeout, a
\* sign-in or subscription error, the unsubscription of handle$) deletes
\* it, and a later idle period starts with an app of its own.
C28_NotifierDisposesApp ==
    /\ [](app => notifier # "off" /\ idle = "descriptor" /\ status = "idle")
    /\ [][(notifier # "off" /\ notifier' = "off") => app /\ ~app']_vars
    /\ [][(notifier = "off" /\ notifier' # "off") => ~app /\ app']_vars

\* handle$ was unsubscribed in an idle period that followed a failed
\* connection attempt: the app is gone, idle$ still holds the descriptor
C28_Witness ==
    /\ idle = "descriptor"
    /\ status = "idle"
    /\ notifier = "off"
    /\ ~app
    /\ retryCount > 1

\* a header name in lower case
LowerCase(n) == IF n \in {"host", "Host", "HOST"} THEN "host" ELSE n

\* C29 (as stated): with removeHostHeader unset or true the headers given
\* to the local call have no host header in any letter case and every
\* other header as it came; with removeHostHeader false they are the
\* header map as it came.
C29_NoHostHeaderInAnyCase ==
    LET tunnel == localCall.tunnel
        came == localCall.descriptor.headers
        given == localCall.options.headers
    IN  localCall.options.made =>
          IF tunnel.removeHostHeader = "false"
          THEN given = came
          ELSE /\ \A n \in DOMAIN given : LowerCase(n) # "host"
               /\ \A n \in DOMAIN came :
                    LowerCase(n) # "host"
                       => n \in DOMAIN given /\ given[n] = came[n]
               /\ DOMAIN given \subseteq DOMAIN came

\* the scheme of the call request(...) makes: that of the module it is
\* imported from
CallScheme(options) ==
    IF options.module = "node:http" THEN "http:" ELSE "https:"

\* the port of the call: the one given, or the default of the module
CallPort(options) ==
    IF options.port # "" THEN options.port
    ELSE IF options.module = "node:http" THEN "80" ELSE "443"

\* the port of a URL: the one written, or the default of its scheme
UrlPort(tunnel) ==
    IF tunnel.port # "" THEN tunnel.port
    ELSE IF tunnel.protocol = "http:" THEN "80" ELSE "443"

\* C30 (as stated): the local call goes to the scheme, host and port of the
\* tunnel's url; its path is the descriptor's url when the path of the
\* tunnel's url is "/", and that path followed by the descriptor's url
\* otherwise; its method is the descriptor's.
C30_CallTargetsTunnelUrl ==
    LET tunnel == localCall.tunnel
        descriptor == localCall.descriptor
        options == localCall.options
    IN  options.made =>
          /\ CallScheme(options) = tunnel.protocol
          /\ options.host = tunnel.hostname
          /\ CallPort(options) = UrlPort(tunnel)
          /\ options.path = (IF tunnel.pathname = "/" THEN descriptor.url
                             ELSE tunnel.pathname \o descriptor.url)
          /\ options.method = descriptor.method

\* the step receives a frame from the relay: a request frame for a fresh id,
\* a data or end frame for a request, a go-idle frame, or a frame whose JSON
\* payload does not parse
FrameReceived ==
    /\ ws = "open"
    /\ \/ \E id \in Ids : /\ reqs[id].stage = "none"
                          /\ reqs'[id].stage # "none"
       \/ \E id \in Ids : reqs'[id].recv = reqs[id].recv + 1
       \/ \E id \in Ids : ~reqs[id].relayEnd /\ reqs'[id].relayEnd
       \/ idle = "null" /\ idle' = "descriptor"
       \/ ~retryTimer /\ retryTimer' /\ retryErr' = "SyntaxError"

\* the step is an error of one PerRequest: catchError of httpRequest sends
\* its badgateway
PerRequestError ==
    \E id \in Ids : /\ reqs[id].stage # "failing"
                    /\ reqs'[id].stage = "failing"

\* C31 (as stated): retryCount is an integer >= 1 in every reachable state;
\* it changes only by +1 when a retry is scheduled after a failure and by
\* the reset to 1 of a settle; going idle, waking from idle, receiving a
\* frame and an error of one request leave it unchanged; it is 1 when
\* connected is emitted.
C31_RetryCounterDiscipline ==
    /\ [](retryCount \in Nat /\ retryCount >= 1)
    /\ [][/\ retryCount' # retryCount
             => \/ /\ retryCount' = retryCount + 1
                   /\ ~retryTimer /\ retryTimer'
                   /\ status' = "disconnected"
                \/ /\ retryCount' = 1
                   /\ settleTimer /\ ~settleTimer'
                   /\ ws = "open"
          /\ (~retryTimer /\ retryTimer') => retryCount' = retryCount + 1
          /\ (status' = "idle" /\ status # "idle") => retryCount' = retryCount
          /\ (status = "idle" /\ status' # "idle") => retryCount' = retryCount
          /\ FrameReceived => retryCount' = retryCount
          /\ PerRequestError => retryCount' = retryCount
          /\ (status' = "connected" /\ status # "connected")
             => retryCount' = 1]_vars

====
